---- MODULE Spec2Model ----
(***************************************************************************)
(* Model of src/storage_manifests.py: the vsphere storage manifests of the *)
(* vsphere-cloud-provider charm.                                           *)
(*                                                                         *)
(* State: the four collaborators VsphereStorageManifests reads (integrator,*)
(* kube_control, control_plane, charm_config); events, the number of       *)
(* changes made to them from outside; ret, the result of the call of       *)
(* config / hash() / evaluate() / CreateSecret() / UpdateDeployment(obj)   *)
(* made since the last change; observed, a history variable holding the    *)
(* last result of hash() from before the last change.                      *)
(*                                                                         *)
(* Python values are modelled as records of one shape, [t, s, n, d]:       *)
(* t is the type tag, s the text of a str, n the number of an int, d the   *)
(* items of a dict with str values, in insertion order.  A Python dict is  *)
(* the sequence of its items [k, v] in insertion order.                    *)
(***************************************************************************)
EXTENDS Integers, Sequences, FiniteSets, TLC

VARIABLES integrator, kube_control, control_plane, charm_config, events, ret, observed

vars == <<integrator, kube_control, control_plane, charm_config, events, ret, observed>>

(***************************************************************************)
(* Bounds of the model.                                                    *)
(***************************************************************************)
\* number of external changes (hook events) a behaviour contains
MaxEvents == 3
\* largest number of units on the control-plane relation
MaxUnits == 1

(***************************************************************************)
(* Python values.                                                          *)
(***************************************************************************)
None == [t |-> "none", s |-> "", n |-> 0, d |-> <<>>]

Str(x) == [t |-> "str", s |-> x, n |-> 0, d |-> <<>>]

Num(i) == [t |-> "int", s |-> "", n |-> i, d |-> <<>>]

Dict(items) == [t |-> "dict", s |-> "", n |-> 0, d |-> items]

\* `value == "" or value is None` (line 166)
IsEmptyOrNone(v) == v = Str("") \/ v = None

\* Python truth value testing, `not value` (lines 48, 182)
Falsy(v) ==
    \/ v.t = "none"
    \/ v.t = "str" /\ v.s = ""
    \/ v.t = "int" /\ v.n = 0
    \/ v.t = "dict" /\ v.d = <<>>

\* isinstance(node_selector, dict) (line 37)
IsDict(v) == v.t = "dict"

(***************************************************************************)
(* dict operations, on sequences of items [k, v] in insertion order.       *)
(***************************************************************************)
Item(k, v) == [k |-> k, v |-> v]

Keys(dct) == {dct[i].k : i \in 1..Len(dct)}

Has(dct, k) == k \in Keys(dct)

\* dict.get(k): None when the key is absent
Get(dct, k) ==
    IF Has(dct, k) THEN dct[CHOOSE i \in 1..Len(dct) : dct[i].k = k].v ELSE None

\* dct[k] = v: an existing key keeps its position, a new key goes last
Set(dct, k, v) ==
    IF Has(dct, k)
    THEN [i \in 1..Len(dct) |-> IF dct[i].k = k THEN Item(k, v) ELSE dct[i]]
    ELSE Append(dct, Item(k, v))

\* del dct[k] / the removal done by dct.pop(k, None)
Del(dct, k) == SelectSeq(dct, LAMBDA e : e.k # k)

\* a faulty variant of Update: keys already set are kept (setdefault semantics)
RECURSIVE UpdateKeepExisting(_, _)
UpdateKeepExisting(dct, other) ==
    IF other = <<>> THEN dct
    ELSE UpdateKeepExisting(
            IF Has(dct, Head(other).k) THEN dct ELSE Set(dct, Head(other).k, Head(other).v),
            Tail(other))

\* dct.update(**other): the items of other, in order, each assigned into dct
RECURSIVE Update(_, _)
Update(dct, other) ==
    IF other = <<>> THEN dct
    ELSE Update(Set(dct, Head(other).k, Head(other).v), Tail(other))

(***************************************************************************)
(* Program constants.                                                      *)
(***************************************************************************)
SECRET_NAME == "vsphere-config-secret"

SECRET_DATA == "csi-vsphere.conf"

\* the model_uuid handed to __init__; fixed for the life of the deployment
model_uuid == "model-uuid"

(***************************************************************************)
(* VsphereStorageManifests.config (lines 145-171).                         *)
(***************************************************************************)
\* lines 148-155: the integrator's four values, when it is ready
FromIntegrator ==
    IF integrator.is_ready
    THEN << Item("server", integrator.vsphere_ip),
            Item("username", integrator.user),
            Item("password", integrator.password),
            Item("datacenter", integrator.datacenter) >>
    ELSE <<>>

\* lines 156-157
FromKubeControl(cfg) ==
    IF kube_control.is_ready
    THEN Set(cfg, "image-registry", kube_control.registry_location)
    ELSE cfg

\* lines 159-161: a Relation object is truthy, None is not
FromControlPlane(cfg) ==
    IF control_plane.present
    THEN Set(Set(cfg, "control-node-selector",
                 Dict(<<Item("juju-application", control_plane.app_name)>>)),
             "replicas", Num(control_plane.units))
    ELSE cfg

\* line 163
FromCharmConfig(cfg) == Update(cfg, charm_config.available_data)

\* lines 165-167
DropEmpty(cfg) == SelectSeq(cfg, LAMBDA e : ~IsEmptyOrNone(e.v))

\* a faulty variant of RenameRelease: the rename is done only when the key is there
RenameReleaseIfPresent(cfg) ==
    IF Has(cfg, "storage-release")
    THEN Set(Del(cfg, "storage-release"), "release", Get(cfg, "storage-release"))
    ELSE cfg

\* line 169: config["release"] = config.pop("storage-release", None)
RenameRelease(cfg) == Set(Del(cfg, "storage-release"), "release", Get(cfg, "storage-release"))

\* a faulty variant of config: the mapping is computed once and kept, as a cached
\* property would
configCached ==
    IF observed.op = "hash" THEN observed.config
    ELSE RenameRelease(DropEmpty(FromCharmConfig(FromControlPlane(FromKubeControl(FromIntegrator)))))

\* lines 145-171: computed from the collaborators at every access
config == RenameRelease(DropEmpty(FromCharmConfig(FromControlPlane(FromKubeControl(FromIntegrator)))))

(***************************************************************************)
(* VsphereStorageManifests.hash (lines 173-175).                           *)
(***************************************************************************)
\* every key a dict of the model can hold, in the order sort_keys puts them
\* (str comparison: by code point)
KeyOrder ==
    << "control-node-selector", "datacenter", "image-registry", "juju-application",
       "password", "release", "replicas", "server", "storage-release", "username", "zone" >>

\* the items of a dict (top level, or nested with str values), keys sorted
SortKeys(items) ==
    LET sk == SelectSeq(KeyOrder, LAMBDA k : Has(items, k))
    IN  [i \in 1..Len(sk) |-> Item(sk[i], Get(items, sk[i]))]

\* a faulty variant of JsonDumps: json.dumps without sort_keys
JsonDumpsUnsorted(dct) == dct

\* json.dumps(dct, sort_keys=True): the text, as the sequence of its members in
\* the order they are written; the members of a nested dict are sorted too
JsonDumps(dct) ==
    LET top == SortKeys(dct)
    IN  [i \in 1..Len(top) |->
            Item(top[i].k, [top[i].v EXCEPT !.d = SortKeys(top[i].v.d)])]

\* int(md5(text).hexdigest(), 16): the digest is taken to be collision free, a
\* number standing for exactly one text
Md5Int(text) == [md5 |-> text]

hash == Md5Int(JsonDumps(config))

(***************************************************************************)
(* VsphereStorageManifests.evaluate (lines 177-183).                       *)
(***************************************************************************)
\* a faulty variant of props: two props change places
propsSwapped == << "username", "server", "password", "datacenter", "control-node-selector" >>

\* line 179
props == << "server", "username", "password", "datacenter", "control-node-selector" >>

\* the f-string of line 183, by the prop it names
WaitingFor(prop) == [message |-> "Storage manifests waiting for definition of", prop |-> prop]

\* lines 181-182: `not self.config.get(prop)`
Missing(cfg, prop) == Falsy(Get(cfg, prop))

\* lines 180-183, from the i-th prop on: the first prop that is missing ends
\* the loop; falling off its end returns None
RECURSIVE EvaluateFrom(_, _)
EvaluateFrom(cfg, i) ==
    IF i > Len(props) THEN None
    ELSE IF Missing(cfg, props[i]) THEN WaitingFor(props[i])
    ELSE EvaluateFrom(cfg, i + 1)

evaluate == EvaluateFrom(config, 1)

(***************************************************************************)
(* CreateSecret.__call__ (lines 58-85).                                    *)
(***************************************************************************)
\* line 61
SecretKeys == << "username", "password", "server", "datacenter" >>

\* lines 68-78: the lines of the text, each its fixed part and the value put in it
SecretConfig(user, passwd, server, datacenter) ==
    << <<"[Global]", None>>,
       <<"cluster-id", Str(model_uuid)>>,
       <<"[VirtualCenter]", server>>,
       <<"insecure-flag", Str("true")>>,
       <<"user", user>>,
       <<"password", passwd>>,
       <<"port", Str("443")>>,
       <<"datacenters", datacenter>> >>

\* base64.b64encode(text).decode("utf-8"): one text per encoding
Base64(text) == [b64 |-> text]

\* a faulty variant of AnyNone: the call gives up only when every value is None
AllNone(secret) == \A i \in 1..Len(secret) : secret[i] = None

\* line 63: any(s is None for s in secret)
AnyNone(secret) == \E i \in 1..Len(secret) : secret[i] = None

\* lines 60-85: None when one of the four values is None
CreateSecret ==
    LET cfg == config
        secret == [i \in 1..Len(SecretKeys) |-> Get(cfg, SecretKeys[i])]
    IN  IF AnyNone(secret)
        THEN None
        ELSE [ apiVersion |-> "v1",
               kind |-> "Secret",
               type |-> "Opaque",
               metadata |-> <<Item("name", SECRET_NAME)>>,
               data |-> <<Item(SECRET_DATA,
                               Base64(SecretConfig(secret[1], secret[2], secret[3], secret[4])))>> ]

(***************************************************************************)
(* UpdateDeployment.__call__ (lines 30-52).  An object is a record with    *)
(* metadata.name, spec.replicas and spec.template.spec.nodeSelector, and   *)
(* with or without the field kind.                                         *)
(***************************************************************************)
\* obj.get("kind")
ObjGetKind(obj) == IF "kind" \in DOMAIN obj THEN Str(obj.kind) ELSE None

\* a faulty variant of IsTarget: either the kind or the name is enough
IsTargetEither(obj) ==
    ObjGetKind(obj) = Str("Deployment") \/ obj.metadata.name = "vsphere-csi-controller"

\* lines 32-34
IsTarget(obj) ==
    ObjGetKind(obj) = Str("Deployment") /\ obj.metadata.name = "vsphere-csi-controller"

\* a faulty variant of UseReplicas: any value that is not None is used
UseReplicasNotNone(replicas) == replicas # None

\* line 48: `if not replicas: return`
UseReplicas(replicas) == ~Falsy(replicas)

\* a faulty variant of UpdateDeployment: replicas is looked at first, and a
\* falsy replicas ends the call before the node selector is set
UpdateDeploymentReplicasFirst(obj) ==
    LET cfg == config
        node_selector == Get(cfg, "control-node-selector")
        replicas == Get(cfg, "replicas")
        selected == [obj EXCEPT !.spec.template.spec.nodeSelector = node_selector]
    IN  IF ~IsTarget(obj) THEN obj
        ELSE IF ~UseReplicas(replicas) THEN obj
        ELSE IF ~IsDict(node_selector) THEN obj
        ELSE [selected EXCEPT !.spec.replicas = replicas]

\* lines 30-52: the object as the call leaves it
UpdateDeployment(obj) ==
    LET cfg == config
        node_selector == Get(cfg, "control-node-selector")
        replicas == Get(cfg, "replicas")
        selected == [obj EXCEPT !.spec.template.spec.nodeSelector = node_selector]
    IN  IF ~IsTarget(obj) THEN obj
        ELSE IF ~IsDict(node_selector) THEN obj
        ELSE IF ~UseReplicas(replicas) THEN selected
        ELSE [selected EXCEPT !.spec.replicas = replicas]

(***************************************************************************)
(* The collaborators: what each can hold.                                  *)
(***************************************************************************)
\* the integrator before the relation is joined
IntegratorUnrelated ==
    [is_ready |-> FALSE, vsphere_ip |-> None, user |-> None, password |-> None,
     datacenter |-> None]

IntegratorComplete ==
    [is_ready |-> TRUE, vsphere_ip |-> Str("10.0.0.1"), user |-> Str("admin"),
     password |-> Str("secret"), datacenter |-> Str("dc1")]

\* ready or not, complete, or with one value not yet sent or sent empty
IntegratorStates ==
    { IntegratorUnrelated, IntegratorComplete,
      [IntegratorComplete EXCEPT !.is_ready = FALSE],
      [IntegratorComplete EXCEPT !.user = None],
      [IntegratorComplete EXCEPT !.password = Str("")] }

KubeControlStates ==
    { [is_ready |-> FALSE, registry_location |-> None],
      [is_ready |-> TRUE, registry_location |-> Str("rocks.canonical.com")],
      [is_ready |-> FALSE, registry_location |-> Str("rocks.canonical.com")] }

\* the control-plane relation: None, or a Relation with its app and units
ControlPlaneNone == [present |-> FALSE, app_name |-> "", units |-> 0]

ControlPlaneStates ==
    {ControlPlaneNone}
    \cup {[present |-> TRUE, app_name |-> "kubernetes-control-plane", units |-> n] :
            n \in 0..MaxUnits}

\* the keys charm_config.available_data can hold, and the values of each: a
\* str, empty or not, and for the node selector a mapping as well
CharmKeys ==
    {"server", "datacenter", "image-registry", "control-node-selector", "replicas",
     "storage-release", "release"}

CharmSelectors ==
    { Dict(<<Item("juju-application", "custom"), Item("zone", "z1")>>),
      Dict(<<Item("zone", "z1"), Item("juju-application", "custom")>>) }

CharmValues(k) ==
    {Str("from-config")}
    \cup (IF k \in {"server", "storage-release"} THEN {Str("")} ELSE {})
    \cup (IF k = "control-node-selector" THEN CharmSelectors ELSE {})

\* the objects UpdateDeployment is applied to: with no kind, of another kind,
\* of another name, and the controller Deployment; each comes with 9 replicas
\* and the node selector of the upstream manifest
Objects ==
    LET body(name) ==
            [ metadata |-> [name |-> name],
              spec |-> [ replicas |-> Num(9),
                         template |-> [spec |-> [nodeSelector |->
                             Dict(<<Item("node-role.kubernetes.io/control-plane", "")>>)]] ] ]
    IN  { body("vsphere-csi-controller"),
          [kind |-> "Service"] @@ body("vsphere-csi-controller"),
          [kind |-> "Deployment"] @@ body("vsphere-csi-node"),
          [kind |-> "Deployment"] @@ body("vsphere-csi-controller") }

(***************************************************************************)
(* The state machine.                                                      *)
(***************************************************************************)
NoObject == [metadata |-> [name |-> ""]]

NoCall == [op |-> "none", config |-> <<>>, arg |-> NoObject, obj |-> NoObject, result |-> None]

Returned(op, result) ==
    [op |-> op, config |-> config, arg |-> NoObject, obj |-> NoObject, result |-> result]

Init ==
    /\ integrator = IntegratorUnrelated
    /\ kube_control = [is_ready |-> FALSE, registry_location |-> None]
    /\ control_plane = ControlPlaneNone
    /\ charm_config = [available_data |-> <<>>]
    /\ events = 0
    /\ ret = NoCall
    /\ observed = NoCall

\* an external change: counted, and the result of the last call is gone.
\* observed is a history variable: when remember is set, the last result of
\* hash() outlives the change.
Changed(remember) ==
    /\ events < MaxEvents
    /\ events' = events + 1
    /\ ret' = NoCall
    /\ observed' = IF remember /\ ret.op = "hash" THEN ret ELSE observed

IntegratorChanged(remember) ==
    /\ \E s \in IntegratorStates \ {integrator} : integrator' = s
    /\ Changed(remember)
    /\ UNCHANGED <<kube_control, control_plane, charm_config>>

KubeControlChanged(remember) ==
    /\ \E s \in KubeControlStates \ {kube_control} : kube_control' = s
    /\ Changed(remember)
    /\ UNCHANGED <<integrator, control_plane, charm_config>>

ControlPlaneChanged(remember) ==
    /\ \E s \in ControlPlaneStates \ {control_plane} : control_plane' = s
    /\ Changed(remember)
    /\ UNCHANGED <<integrator, kube_control, charm_config>>

CharmConfigSet(remember) ==
    /\ \E k \in CharmKeys : \E v \in CharmValues(k) :
          /\ Get(charm_config.available_data, k) # v
          /\ charm_config' = [available_data |-> Set(charm_config.available_data, k, v)]
    /\ Changed(remember)
    /\ UNCHANGED <<integrator, kube_control, control_plane>>

CharmConfigUnset(remember) ==
    /\ \E k \in Keys(charm_config.available_data) :
          charm_config' = [available_data |-> Del(charm_config.available_data, k)]
    /\ Changed(remember)
    /\ UNCHANGED <<integrator, kube_control, control_plane>>

\* a call reads the collaborators and changes none of them
Unchanged == UNCHANGED <<integrator, kube_control, control_plane, charm_config, events, observed>>

ConfigCall ==
    /\ ret' = Returned("config", config)
    /\ Unchanged

HashCall ==
    /\ ret' = Returned("hash", hash)
    /\ Unchanged

EvaluateCall ==
    /\ ret' = Returned("evaluate", evaluate)
    /\ Unchanged

CreateSecretCall ==
    /\ ret' = Returned("CreateSecret", CreateSecret)
    /\ Unchanged

UpdateDeploymentCall(objects) ==
    /\ \E o \in objects :
          ret' = [Returned("UpdateDeployment", None) EXCEPT !.arg = o, !.obj = UpdateDeployment(o)]
    /\ Unchanged

Next ==
    \/ IntegratorChanged(FALSE)
    \/ KubeControlChanged(FALSE)
    \/ ControlPlaneChanged(FALSE)
    \/ CharmConfigSet(FALSE)
    \/ CharmConfigUnset(FALSE)
    \/ ConfigCall
    \/ HashCall
    \/ EvaluateCall
    \/ CreateSecretCall
    \/ UpdateDeploymentCall(Objects)

Spec == Init /\ [][Next]_vars

\* the same changes, with the last result of hash() remembered across them, and
\* the same calls, UpdateDeployment on the object it is written for
NextHist ==
    \/ IntegratorChanged(TRUE)
    \/ KubeControlChanged(TRUE)
    \/ ControlPlaneChanged(TRUE)
    \/ CharmConfigSet(TRUE)
    \/ CharmConfigUnset(TRUE)
    \/ ConfigCall
    \/ HashCall
    \/ EvaluateCall
    \/ CreateSecretCall
    \/ UpdateDeploymentCall({o \in Objects : IsTarget(o)})

SpecHist == Init /\ [][NextHist]_vars

(***************************************************************************)
(* What the collaborators supply, per key, stated apart from config.       *)
(***************************************************************************)
available_data == charm_config.available_data

\* the keys available_data supplies with a value that is neither "" nor None
CharmSupplies(k) == Has(available_data, k) /\ ~IsEmptyOrNone(Get(available_data, k))

IntegratorKeys == {"server", "username", "password", "datacenter"}

IntegratorValue(k) ==
    CASE k = "server" -> integrator.vsphere_ip
      [] k = "username" -> integrator.user
      [] k = "password" -> integrator.password
      [] k = "datacenter" -> integrator.datacenter

IsCall == ret.op # "none"

(***************************************************************************)
(* C1                                                                      *)
(***************************************************************************)
\* C1, as claimed: whenever config is read, every key that available_data
\* supplies with a non-empty, non-null value is mapped by the effective config
\* to exactly that value.
C1_CharmConfigWinsEveryKey ==
    ret.op = "config" =>
        \A k \in CharmKeys :
            CharmSupplies(k) => Has(ret.result, k) /\ Get(ret.result, k) = Get(available_data, k)

\* C1, amended: the same for every key other than storage-release and release;
\* a supplied storage-release is found under release and not under its own
\* name, whatever release was supplied.
C1_CharmConfigWins ==
    ret.op = "config" =>
        /\ \A k \in CharmKeys \ {"storage-release", "release"} :
              CharmSupplies(k) =>
                  Has(ret.result, k) /\ Get(ret.result, k) = Get(available_data, k)
        /\ CharmSupplies("storage-release") =>
              /\ ~Has(ret.result, "storage-release")
              /\ Get(ret.result, "release") = Get(available_data, "storage-release")

\* C1 witness: config was read while the charm config supplies the server that
\* the ready integrator sets too, and the charm's value is the one returned.
C1_Witness ==
    /\ ret.op = "config"
    /\ integrator.is_ready /\ integrator.vsphere_ip = Str("10.0.0.1")
    /\ CharmSupplies("server")
    /\ Get(ret.result, "server") = Str("from-config")

(***************************************************************************)
(* C2                                                                      *)
(***************************************************************************)
\* C2: whenever config is read, the mapping returned has no key
\* storage-release; it has the key release (once), whose value is the value
\* storage-release had after the empty values were dropped, None when it was
\* not set or was empty; and no other key maps to "" or None.
C2_Normalised ==
    ret.op = "config" =>
        /\ ~Has(ret.result, "storage-release")
        /\ Has(ret.result, "release")
        /\ Cardinality(Keys(ret.result)) = Len(ret.result)
        /\ Get(ret.result, "release") =
              IF CharmSupplies("storage-release")
              THEN Get(available_data, "storage-release") ELSE None
        /\ \A i \in 1..Len(ret.result) :
              ret.result[i].k # "release" => ~IsEmptyOrNone(ret.result[i].v)

\* C2 witness: config was read while storage-release was not set (or was set
\* empty) and a source supplied an empty value: release is there, as None.
C2_Witness ==
    /\ ret.op = "config"
    /\ ~CharmSupplies("storage-release")
    /\ integrator.is_ready /\ integrator.password = Str("")
    /\ Has(ret.result, "release") /\ Get(ret.result, "release") = None
    /\ ~Has(ret.result, "password")

(***************************************************************************)
(* C3                                                                      *)
(***************************************************************************)
\* the order C3 states
C3_Order == << "server", "username", "password", "datacenter", "control-node-selector" >>

\* C3: evaluate() returns the message naming the first key, in the order
\* server, username, password, datacenter, control-node-selector, whose value in
\* the effective config is missing or falsy, and None if and only if there is
\* no such key.
C3_FirstMissing ==
    ret.op = "evaluate" =>
        LET falsy == {i \in 1..Len(C3_Order) : Falsy(Get(ret.config, C3_Order[i]))}
        IN  /\ (ret.result = None) <=> (falsy = {})
            /\ \A i \in falsy :
                  (\A j \in falsy : i <= j) => ret.result = WaitingFor(C3_Order[i])

\* C3 witness: evaluate() named password while a later key,
\* control-node-selector, was missing too.
C3_Witness ==
    /\ ret.op = "evaluate"
    /\ ret.result = WaitingFor("password")
    /\ Has(ret.config, "server") /\ Has(ret.config, "username")
    /\ ~Has(ret.config, "control-node-selector")

(***************************************************************************)
(* C4                                                                      *)
(***************************************************************************)
\* C4: CreateSecret returns None when one of server, username, password,
\* datacenter is absent from the effective config, and otherwise the Secret of
\* type Opaque named vsphere-config-secret whose data has the one key
\* csi-vsphere.conf.
C4_SecretIffAllPresent ==
    ret.op = "CreateSecret" =>
        IF \E k \in IntegratorKeys : ~Has(ret.config, k)
        THEN ret.result = None
        ELSE /\ ret.result # None
             /\ ret.result.kind = "Secret"
             /\ ret.result.type = "Opaque"
             /\ ret.result.metadata = <<Item("name", "vsphere-config-secret")>>
             /\ Keys(ret.result.data) = {"csi-vsphere.conf"}
             /\ Len(ret.result.data) = 1

\* C4 witness: CreateSecret was called with all four values in the effective
\* config and returned a Secret.
C4_Witness ==
    /\ ret.op = "CreateSecret"
    /\ \A k \in IntegratorKeys : Has(ret.config, k)
    /\ ret.result # None
    /\ ret.result.kind = "Secret"

(***************************************************************************)
(* C5, C6, C7                                                              *)
(***************************************************************************)
\* the object UpdateDeployment was given is the Deployment vsphere-csi-controller
OnController ==
    /\ "kind" \in DOMAIN ret.arg
    /\ ret.arg.kind = "Deployment"
    /\ ret.arg.metadata.name = "vsphere-csi-controller"

NodeSelectorOf(obj) == obj.spec.template.spec.nodeSelector

\* obj, with its replicas and its nodeSelector taken from base
WithReplicasAndSelectorOf(obj, base) ==
    [obj EXCEPT !.spec.replicas = base.spec.replicas,
                !.spec.template.spec.nodeSelector = NodeSelectorOf(base)]

\* C5: UpdateDeployment leaves an object as it was when its kind is not
\* Deployment (or it has no kind) or its name is not vsphere-csi-controller.
C5_NoOpOffTarget ==
    (ret.op = "UpdateDeployment" /\ ~OnController) => ret.obj = ret.arg

\* C5 witness: UpdateDeployment was applied to an object off target (a Service
\* of the controller's name) under a config that holds a node selector mapping
\* and a truthy replicas.
C5_Witness ==
    /\ ret.op = "UpdateDeployment"
    /\ "kind" \in DOMAIN ret.arg /\ ret.arg.kind = "Service"
    /\ ret.arg.metadata.name = "vsphere-csi-controller"
    /\ IsDict(Get(ret.config, "control-node-selector"))
    /\ ~Falsy(Get(ret.config, "replicas"))
    /\ ret.obj = ret.arg

\* C6: on the Deployment vsphere-csi-controller, when control-node-selector is
\* a mapping M: nodeSelector is M afterwards; replicas is the configured value
\* when that is truthy and the value it had when it is absent or falsy; and
\* nothing else of the object has changed.
C6_PatchOnTarget ==
    (ret.op = "UpdateDeployment" /\ OnController
        /\ IsDict(Get(ret.config, "control-node-selector"))) =>
        /\ NodeSelectorOf(ret.obj) = Get(ret.config, "control-node-selector")
        /\ ret.obj.spec.replicas =
              IF Falsy(Get(ret.config, "replicas"))
              THEN ret.arg.spec.replicas ELSE Get(ret.config, "replicas")
        /\ WithReplicasAndSelectorOf(ret.obj, ret.arg) = ret.arg

\* C6 witness: the controller Deployment was patched while the control-plane
\* relation had no units: the node selector is the relation's, the replicas
\* are the ones the object came with.
C6_Witness ==
    /\ ret.op = "UpdateDeployment" /\ OnController
    /\ control_plane.present /\ control_plane.units = 0
    /\ Get(ret.config, "replicas") = Num(0)
    /\ NodeSelectorOf(ret.obj) = Dict(<<Item("juju-application", "kubernetes-control-plane")>>)
    /\ ret.obj.spec.replicas = ret.arg.spec.replicas

ItemSet(items) == {items[i] : i \in 1..Len(items)}

AsMapping(dct) ==
    {<<dct[i].k, [dct[i].v EXCEPT !.d = <<>>], ItemSet(dct[i].v.d)>> : i \in 1..Len(dct)}

\* C8: two calls of hash() whose effective configs are equal as mappings,
\* whatever the order their keys were inserted in (nested mappings too), return
\* the same value.
C8_HashOfContent ==
    (ret.op = "hash" /\ observed.op = "hash"
        /\ AsMapping(ret.config) = AsMapping(observed.config)) =>
        ret.result = observed.result

\* C8 witness: hash() was called in two states of the collaborators whose
\* effective configs are equal as mappings and differ in the order of their keys.
C8_Witness ==
    /\ ret.op = "hash" /\ observed.op = "hash"
    /\ AsMapping(ret.config) = AsMapping(observed.config)
    /\ ret.config # observed.config

(***************************************************************************)
(* C9                                                                      *)
(***************************************************************************)
\* what a key of a source must be in the effective config, from the
\* collaborators as they are now: the value available_data holds for it when it
\* holds one, else the source's value when the source is ready (present); absent
\* when that value is "" or None (None stands for absent)
ExpectedNow(k) ==
    LET sourced ==
            CASE k \in IntegratorKeys ->
                    IF integrator.is_ready THEN IntegratorValue(k) ELSE None
              [] k = "image-registry" ->
                    IF kube_control.is_ready THEN kube_control.registry_location ELSE None
              [] k = "control-node-selector" ->
                    IF control_plane.present
                    THEN Dict(<<Item("juju-application", control_plane.app_name)>>) ELSE None
              [] k = "replicas" ->
                    IF control_plane.present THEN Num(control_plane.units) ELSE None
        latest == IF Has(available_data, k) THEN Get(available_data, k) ELSE sourced
    IN  IF IsEmptyOrNone(latest) THEN None ELSE latest

SourceKeys == IntegratorKeys \cup {"image-registry", "control-node-selector", "replicas"}

\* C9: after any interleaving of changes and calls, the effective config a
\* call used is the one the collaborators give at that call: a key of a source
\* that is not ready (a relation that is absent) and that the charm config does
\* not supply is absent, a key that is supplied has the value supplied now; and
\* what config, evaluate() and CreateSecret() return, and the node selector
\* UpdateDeployment sets, are of that config.
C9_NoStaleConfig ==
    IsCall =>
        /\ \A k \in SourceKeys :
              /\ Has(ret.config, k) <=> ExpectedNow(k) # None
              /\ Get(ret.config, k) = ExpectedNow(k)
        /\ ret.op = "config" => ret.result = ret.config
        /\ ret.op = "evaluate" =>
              ((ret.result = None) <=>
                  \A k \in IntegratorKeys \cup {"control-node-selector"} : ExpectedNow(k) # None)
        /\ ret.op = "CreateSecret" =>
              ((ret.result = None) <=> \E k \in IntegratorKeys : ExpectedNow(k) = None)
        /\ (ret.op = "UpdateDeployment" /\ IsDict(ExpectedNow("control-node-selector"))) =>
              NodeSelectorOf(ret.obj) = ExpectedNow("control-node-selector")

\* C9 witness: a call was made with the integrator not ready and the charm
\* config not supplying server, after a call of hash() that had server in its
\* config: server is absent from the config of the later call.
C9_Witness ==
    /\ IsCall
    /\ observed.op = "hash" /\ Has(observed.config, "server")
    /\ ~integrator.is_ready /\ ~CharmSupplies("server")
    /\ ~Has(ret.config, "server")

(***************************************************************************)
(* C10                                                                     *)
(***************************************************************************)
\* C10, as claimed: in a state where evaluate() returns None, CreateSecret
\* returns a Secret and UpdateDeployment sets the nodeSelector of the controller
\* Deployment to the configured control-node-selector.
C10_ReadyRenders ==
    evaluate = None =>
        /\ ret.op = "CreateSecret" => ret.result # None
        /\ (ret.op = "UpdateDeployment" /\ OnController) =>
              NodeSelectorOf(ret.obj) = Get(ret.config, "control-node-selector")

====
